---- MODULE Spec2Model ----
(***************************************************************************)
(* honoka: a spaced-repetition flashcard tool over one SQLite table.       *)
(*                                                                         *)
(* The table outlives a process, so the state is the table `cards` (rows   *)
(* in rowid order, which is the order of a full scan), the system clock    *)
(* `now` in whole seconds, and one interactive review round (Application:: *)
(* next) that blocks twice on std::cin while other invocations of the      *)
(* program (add / list / remove) run to completion against the same table. *)
(* Every SQL statement is atomic; the scan of next() and list() is taken   *)
(* at one clock reading.  Engine failures (I/O, busy) are not modelled.    *)
(***************************************************************************)
EXTENDS Integers, Sequences, FiniteSets, TLC

VARIABLES
  cards,     \* the table: sequence of rows in rowid (scan) order
  now,       \* system clock, seconds since the epoch
  ticks,     \* number of clock advances so far (bounded)
  runs,      \* number of add and remove invocations so far (bounded)
  pc,        \* position of the review round: "idle", "presenting",
             \* "judging", "updating"
  front,     \* next(): local `front`
  back,      \* next(): local `back`
  interval,  \* next(): local `interval`
  reply,     \* next(): local `reply`
  cin,       \* state of std::cin in the review process: "good", "eof", "fail"
  last,      \* the most recently completed invocation: argv[1] ("next" without
             \* arguments), exit code, standard output, standard error
  argv,      \* main(): the arguments after the program name
  mpc,       \* main(): position of the invocation followed step by step
  db_,       \* Application::db_: "null", "open" or "closed"
  closes,    \* number of sqlite3_close calls on the handle
  stmts      \* the statements prepared on the handle, each with the function
             \* that prepared it and the number of times it was finalized

mainvars == <<argv, mpc, db_, closes, stmts>>

vars == <<cards, now, ticks, runs, pc, front, back, interval, reply, cin, last,
          argv, mpc, db_, closes, stmts>>

-----------------------------------------------------------------------------
(* Bounds *)

MaxTicks == 2
MaxRuns == 2

Fronts == {"Q", "R"}
Backs == {"A", "B"}

-----------------------------------------------------------------------------
(* Constants of the program *)

DAY == 86400

\* faulty variant of INTERVALS: the second rung is 0 days as well
INTERVALS_second_zero ==
  [k \in 0..7 |-> <<0 * DAY, 0 * DAY, 2 * DAY, 4 * DAY,
                    8 * DAY, 16 * DAY, 32 * DAY, 64 * DAY>>[k + 1]]

INTERVALS ==
  [k \in 0..7 |-> <<0 * DAY, 1 * DAY, 2 * DAY, 4 * DAY,
                    8 * DAY, 16 * DAY, 32 * DAY, 64 * DAY>>[k + 1]]

INTERVALS_size == 8

DefaultInterval == 0

-----------------------------------------------------------------------------
(* SQLite date and time functions used by the statements *)

\* faulty variant of CURRENT_TIMESTAMP: the date without the time of day
CURRENT_TIMESTAMP_date(clock) ==
  [date |-> clock \div 86400, time |-> 0]

\* CURRENT_TIMESTAMP: the clock formatted as "YYYY-MM-DD HH:MM:SS" (UTC),
\* kept as the date (days since the epoch) and the time of day.
CURRENT_TIMESTAMP(clock) ==
  [date |-> clock \div 86400, time |-> clock % 86400]

\* unixepoch(text): the timestamp parsed back to seconds.
unixepoch(ts) == ts.date * 86400 + ts.time

-----------------------------------------------------------------------------
(* Helpers on the table *)

HasFront(tbl, f) == \E k \in 1..Len(tbl) : tbl[k].front = f

RowOf(tbl, f) == tbl[CHOOSE k \in 1..Len(tbl) : tbl[k].front = f]

\* CREATE TABLE IF NOT EXISTS: a missing table becomes the empty table,
\* an existing one is kept.
NoTable == "no such table"

create(db) == IF db = NoTable THEN <<>> ELSE db

\* INSERT INTO cards (front, back) VALUES (?, ?): front is the PRIMARY KEY,
\* interval and both timestamps take their column defaults, the row gets
\* the next rowid and so comes last in a scan.
\* faulty variant of InsertOk: front is not a key
InsertOk_nokey(tbl, f) == TRUE

InsertOk(tbl, f) == ~HasFront(tbl, f)

InsertRow(tbl, f, b, clock) ==
  Append(tbl, [front |-> f, back |-> b, interval |-> DefaultInterval,
               created_at |-> CURRENT_TIMESTAMP(clock),
               updated_at |-> CURRENT_TIMESTAMP(clock)])

\* faulty variant of DeleteRow: the statement without its WHERE clause
DeleteRow_all(tbl, f) == <<>>

\* DELETE FROM cards WHERE front = ?
DeleteRow(tbl, f) == SelectSeq(tbl, LAMBDA r : r.front # f)

\* faulty variant of update: updated_at is not set
update_interval_only(tbl, i, f, clock) ==
  [k \in 1..Len(tbl) |->
     IF tbl[k].front = f
     THEN [tbl[k] EXCEPT !.interval = i]
     ELSE tbl[k]]

\* faulty variant of update: the statement without its WHERE clause
update_all_rows(tbl, i, f, clock) ==
  [k \in 1..Len(tbl) |->
     [tbl[k] EXCEPT !.interval = i,
                    !.updated_at = CURRENT_TIMESTAMP(clock)]]

\* faulty variant of update: updated_at is set from created_at
update_to_created(tbl, i, f, clock) ==
  [k \in 1..Len(tbl) |->
     IF tbl[k].front = f
     THEN [tbl[k] EXCEPT !.interval = i,
                         !.updated_at = tbl[k].created_at]
     ELSE tbl[k]]

\* faulty variant of update: a missing row is inserted (an upsert)
update_upsert(tbl, i, f, clock) ==
  IF HasFront(tbl, f)
  THEN [k \in 1..Len(tbl) |->
          IF tbl[k].front = f
          THEN [tbl[k] EXCEPT !.interval = i,
                              !.updated_at = CURRENT_TIMESTAMP(clock)]
          ELSE tbl[k]]
  ELSE Append(tbl, [front |-> f, back |-> "", interval |-> i,
                    created_at |-> CURRENT_TIMESTAMP(clock),
                    updated_at |-> CURRENT_TIMESTAMP(clock)])

\* UPDATE cards SET interval = ?, updated_at = CURRENT_TIMESTAMP
\* WHERE front = ?
update(tbl, i, f, clock) ==
  [k \in 1..Len(tbl) |->
     IF tbl[k].front = f
     THEN [tbl[k] EXCEPT !.interval = i,
                         !.updated_at = CURRENT_TIMESTAMP(clock)]
     ELSE tbl[k]]

-----------------------------------------------------------------------------
(* Scheduler *)

\* faulty variant of needs_review
needs_review_strict(i, updated_at, clock) ==
  LET review_at == updated_at + INTERVALS[i]
  IN  clock > review_at

needs_review(i, updated_at, clock) ==
  LET review_at == updated_at + INTERVALS[i]
  IN  clock >= review_at

Min(a, b) == IF a < b THEN a ELSE b

\* faulty variant of Passed: the capital letter is not accepted
Passed_lowercase(r) == r = <<>> \/ r = <<"y">>

\* the branch on the judgment line at the end of next()
Passed(r) == r = <<>> \/ r = <<"Y">> \/ r = <<"y">>

\* faulty variants of NextInterval
NextInterval_offbyone(i, r) ==
  IF Passed(r) THEN Min(i + 1, INTERVALS_size) ELSE 1

NextInterval_unclamped(i, r) ==
  IF Passed(r) THEN i + 1 ELSE 1

NextInterval_reset(i, r) ==
  IF Passed(r) THEN Min(i + 1, INTERVALS_size - 1) ELSE 0

NextInterval(i, r) ==
  IF Passed(r) THEN Min(i + 1, INTERVALS_size - 1) ELSE 1

-----------------------------------------------------------------------------
(* The scan loops *)

\* faulty variant of ListScan: the fronts come out in reverse order
RECURSIVE ListScan_reverse(_, _, _)
ListScan_reverse(tbl, k, clock) ==
  IF k > Len(tbl) THEN <<>>
  ELSE LET r == tbl[k]
           rest == ListScan_reverse(tbl, k + 1, clock)
       IN  IF needs_review(r.interval, unixepoch(r.updated_at), clock)
           THEN rest \o <<r.front>>
           ELSE rest

\* list(): the fronts of the rows that need review, in scan order
RECURSIVE ListScan(_, _, _)
ListScan(tbl, k, clock) ==
  IF k > Len(tbl) THEN <<>>
  ELSE LET r == tbl[k]
           rest == ListScan(tbl, k + 1, clock)
       IN  IF needs_review(r.interval, unixepoch(r.updated_at), clock)
           THEN <<r.front>> \o rest
           ELSE rest

\* next(): the locals after the scan loop; rows are copied into the locals
\* only while no row needing review has been found
\* faulty variant of NextLocals0: success starts as true
NextLocals0_found ==
  [front |-> "", back |-> "", interval |-> 0, updated_at |-> 0,
   success |-> TRUE]

NextLocals0 ==
  [front |-> "", back |-> "", interval |-> 0, updated_at |-> 0,
   success |-> FALSE]

\* faulty variant of NextScan: every row is copied into the locals
RECURSIVE NextScan_overwrite(_, _, _, _)
NextScan_overwrite(tbl, k, loc, clock) ==
  IF k > Len(tbl) THEN loc
  ELSE LET r == tbl[k]
           due == needs_review(r.interval, unixepoch(r.updated_at), clock)
           got == [front |-> r.front, back |-> r.back,
                   interval |-> r.interval,
                   updated_at |-> unixepoch(r.updated_at),
                   success |-> loc.success \/ due]
       IN  NextScan_overwrite(tbl, k + 1, got, clock)

RECURSIVE NextScan(_, _, _, _)
NextScan(tbl, k, loc, clock) ==
  IF k > Len(tbl) THEN loc
  ELSE LET r == tbl[k]
           got == [front |-> r.front, back |-> r.back,
                   interval |-> r.interval,
                   updated_at |-> unixepoch(r.updated_at),
                   success |-> needs_review(r.interval,
                                            unixepoch(r.updated_at), clock)]
       IN  NextScan(tbl, k + 1, IF loc.success THEN loc ELSE got, clock)

-----------------------------------------------------------------------------
(* std::getline(std::cin, reply) *)

\* What the operator supplies at one read: a line without its terminator
\* (a sequence of characters) and whether it ended with a newline or with
\* the end of the input.
Lines == {<<>>, <<"y">>, <<"Y">>, <<"n">>, <<"y", "e", "s">>}

\* A stream that is not good fails the sentry: the string is left as it
\* was and failbit is set.  Otherwise the string is erased and filled; the
\* end of the input sets eofbit, and failbit too when nothing was read.
getline_reply(stream, old, line) == IF stream = "good" THEN line ELSE old

getline_cin(stream, line, eof) ==
  IF stream # "good" THEN "fail"
  ELSE IF ~eof THEN "good"
  ELSE IF line = <<>> THEN "fail" ELSE "eof"

-----------------------------------------------------------------------------
(* Initial states *)

\* The time from the insertion of a card to its latest review when it
\* climbed to step s by passing every review at the earliest possible time.
RECURSIVE History(_)
History(s) == IF s = 0 THEN 0 ELSE History(s - 1) + INTERVALS[s - 1]

Climbed(s, t0) ==
  <<[front |-> "Q", back |-> "A", interval |-> s,
     created_at |-> CURRENT_TIMESTAMP(t0),
     updated_at |-> CURRENT_TIMESTAMP(t0 + History(s))]>>

\* The last clock reading at which that card does not need review yet
\* (a card at step 0 needs review at once).
LastSecond(s) == IF s = 0 THEN History(s) ELSE History(s) + INTERVALS[s] - 1

\* no invocation is followed step by step
MainIdle ==
  /\ argv = <<>>
  /\ mpc = "start"
  /\ db_ = "null"
  /\ closes = 0
  /\ stmts = <<>>

NoRun == [cmd |-> "none", exit |-> 0, out |-> <<>>, err |-> ""]

ReviewIdle ==
  /\ pc = "idle"
  /\ front = ""
  /\ back = ""
  /\ interval = 0
  /\ reply = <<>>
  /\ cin = "good"

\* The table is either created by this construction or was left by earlier
\* invocations with one card that climbed to some step, and the clock
\* has since advanced to the second before that card needs review again.
Init ==
  /\ \E s \in -1..7 :
       /\ cards = create(IF s = -1 THEN NoTable ELSE Climbed(s, 0))
       /\ now = IF s = -1 THEN 0 ELSE LastSecond(s)
  /\ ticks = 0
  /\ runs = 0
  /\ ReviewIdle
  /\ last = NoRun
  /\ MainIdle

-----------------------------------------------------------------------------
(* The clock *)

TickSizes == {1, DAY - 1}

Tick(d) ==
  /\ ticks < MaxTicks
  /\ now' = now + d
  /\ ticks' = ticks + 1
  /\ UNCHANGED <<cards, runs, pc, front, back, interval, reply, cin, last>>
  /\ UNCHANGED mainvars

-----------------------------------------------------------------------------
(* Invocations that run to completion: main() with a command *)

UnchangedReview == UNCHANGED <<pc, front, back, interval, reply, cin>>

add(f, b) ==
  /\ runs < MaxRuns
  /\ runs' = runs + 1
  /\ IF InsertOk(cards, f)
     THEN /\ cards' = InsertRow(cards, f, b, now)
          /\ last' = [cmd |-> "add", exit |-> 0,
                      out |-> <<>>, err |-> ""]
     ELSE /\ cards' = cards
          /\ last' = [cmd |-> "add", exit |-> 1,
                      out |-> <<>>, err |-> "Can't insert into table"]
  /\ UNCHANGED <<now, ticks>>
  /\ UnchangedReview
  /\ UNCHANGED mainvars

list ==
  /\ last' = [cmd |-> "list", exit |-> 0,
              out |-> ListScan(cards, 1, now), err |-> ""]
  /\ UNCHANGED <<cards, now, ticks, runs>>
  /\ UnchangedReview
  /\ UNCHANGED mainvars

remove(f) ==
  /\ runs < MaxRuns
  /\ runs' = runs + 1
  /\ cards' = DeleteRow(cards, f)
  /\ last' = [cmd |-> "remove", exit |-> 0,
              out |-> <<>>, err |-> ""]
  /\ UNCHANGED <<now, ticks>>
  /\ UnchangedReview
  /\ UNCHANGED mainvars

-----------------------------------------------------------------------------
(* The review round: main() without arguments, Application::next *)

\* the process of the review round ends: its locals and its stream are gone
EndReview ==
  /\ pc' = "idle"
  /\ front' = ""
  /\ back' = ""
  /\ interval' = 0
  /\ reply' = <<>>
  /\ cin' = "good"

\* Selecting: the scan; with no row needing review next() returns
next_select ==
  /\ pc = "idle"
  /\ LET loc == NextScan(cards, 1, NextLocals0, now)
     IN  IF loc.success
         THEN /\ pc' = "presenting"
              /\ front' = loc.front
              /\ back' = loc.back
              /\ interval' = loc.interval
              /\ reply' = <<>>
              /\ cin' = "good"
              /\ UNCHANGED last
         ELSE /\ last' = [cmd |-> "next", exit |-> 0,
                          out |-> <<>>, err |-> ""]
              /\ UNCHANGED <<pc, front, back, interval, reply, cin>>
  /\ UNCHANGED <<cards, now, ticks, runs>>
  /\ UNCHANGED mainvars

\* Presenting: the front is printed, the first getline returns
next_present(line, eof) ==
  /\ pc = "presenting"
  /\ reply' = getline_reply(cin, reply, line)
  /\ cin' = getline_cin(cin, line, eof)
  /\ pc' = "judging"
  /\ UNCHANGED <<cards, now, ticks, runs, front, back, interval, last>>
  /\ UNCHANGED mainvars

\* Judging: the back and the prompt are printed, the second getline
\* returns
next_judge(line, eof) ==
  /\ pc = "judging"
  /\ reply' = getline_reply(cin, reply, line)
  /\ cin' = getline_cin(cin, line, eof)
  /\ pc' = "updating"
  /\ UNCHANGED <<cards, now, ticks, runs, front, back, interval, last>>
  /\ UNCHANGED mainvars

\* Terminal: the new interval is computed from the reply and written back,
\* main returns 0
next_update ==
  /\ pc = "updating"
  /\ cards' = update(cards, NextInterval(interval, reply), front, now)
  /\ EndReview
  /\ last' = [cmd |-> "next", exit |-> 0,
              out |-> <<front, back, "Ok? (Y/n) ">>, err |-> ""]
  /\ UNCHANGED <<now, ticks, runs>>
  /\ UNCHANGED mainvars

-----------------------------------------------------------------------------

Next ==
  \/ \E d \in TickSizes : Tick(d)
  \/ \E f \in Fronts, b \in Backs : add(f, b)
  \/ list
  \/ \E f \in Fronts : remove(f)
  \/ next_select
  \/ \E line \in Lines, eof \in BOOLEAN : next_present(line, eof)
  \/ \E line \in Lines, eof \in BOOLEAN : next_judge(line, eof)
  \/ next_update

Spec == Init /\ [][Next]_vars

-----------------------------------------------------------------------------
(* The due predicate on its own: one card at any step, inserted at any     *)
(* time of day, and the clock any of the ladder's durations after the      *)
(* card's latest update, a second less or a second more; list applies      *)
(* needs_review to it.                                                     *)

DueOffsets ==
  {INTERVALS[k] + e : k \in 0..7, e \in {-1, 0, 1}} \ {-1}

InsertedAt == {0, 1, DAY - 1}

InitDue ==
  /\ \E s \in 0..7, t0 \in InsertedAt, delta \in DueOffsets :
       /\ cards = Climbed(s, t0)
       /\ now = t0 + History(s) + delta
  /\ ticks = 0
  /\ runs = 0
  /\ ReviewIdle
  /\ last = NoRun
  /\ MainIdle

NextDue == list

SpecDue == InitDue /\ [][NextDue]_vars

-----------------------------------------------------------------------------
(* Review rounds only, one after the other, with the clock held fixed: the *)
(* table holds no card, one card that climbed to some step, or that card   *)
(* and a second one just inserted; the clock is at the last second before  *)
(* the first card is due again or at the first second it is.  The operator *)
(* answers every read (with a line or by ending the input), so every step  *)
(* of a round is eventually taken.                                         *)

Inserted(f, b, clock) == InsertRow(<<>>, f, b, clock)

InitRounds ==
  /\ \E s \in -1..7, extra \in BOOLEAN, late \in 0..1 :
       /\ now = (IF s = -1 THEN 0 ELSE LastSecond(s)) + late
       /\ cards = create(IF s = -1 THEN NoTable ELSE Climbed(s, 0))
                     \o (IF extra THEN Inserted("R", "B", now) ELSE <<>>)
  /\ ticks = 0
  /\ runs = 0
  /\ ReviewIdle
  /\ last = NoRun
  /\ MainIdle

NextRounds ==
  \/ next_select
  \/ \E line \in Lines, eof \in BOOLEAN : next_present(line, eof)
  \/ \E line \in Lines, eof \in BOOLEAN : next_judge(line, eof)
  \/ next_update

SpecRounds ==
  /\ InitRounds
  /\ [][NextRounds]_vars
  /\ WF_vars(next_select)
  /\ WF_vars(\E line \in Lines, eof \in BOOLEAN : next_present(line, eof))
  /\ WF_vars(\E line \in Lines, eof \in BOOLEAN : next_judge(line, eof))
  /\ WF_vars(next_update)

-----------------------------------------------------------------------------
(* One invocation of main() followed step by step, with the failures the   *)
(* engine can report and with arguments too long for an int: the handle    *)
(* db_, the statements prepared on it, the exception that reaches main's   *)
(* catch clause and the exit code.                                         *)

INT_MAX == 2147483647

\* an argument of INT_MAX + 1 bytes; every other text is short
Huge == "HUGE"

\* std::string::size, a size_t: wider than the integers of the checker, so
\* kept as hi * 2^31 + lo with lo \in 0..INT_MAX
size(str) ==
  IF str = Huge THEN [hi |-> 1, lo |-> 0] ELSE [hi |-> 0, lo |-> 1]

\* sizetint(s): throws std::overflow_error when s does not fit an int
sizetint_throws(s) == s.hi > 0 \/ s.lo > INT_MAX

OverflowText == "size_t value too big for int"

UsageText == "Usage: honoka [add <front> <back> | list | remove <front>]"

\* what the engine reports for a statement: nothing, a failure of
\* sqlite3_prepare_v2 (its result is not tested, the statement stays a null
\* pointer and sqlite3_step on it fails), or a failure of sqlite3_step
Faults == {"none", "prepare", "step"}

Argvs ==
  {<<>>, <<"list">>, <<"list", "Q">>, <<"remove">>, <<"add", "Q">>,
   <<"bogus">>}
    \cup {<<"add", f, b>> : f \in Fronts \cup {Huge}, b \in {"B", Huge}}
    \cup {<<"remove", f>> : f \in Fronts \cup {Huge}}

\* argc and argv[1] select the command; anything else is a usage error
ValidArgs(a) ==
  IF a = <<>> THEN TRUE
  ELSE \/ (a[1] = "add" /\ Len(a) = 3)
       \/ (a[1] = "list" /\ Len(a) = 1)
       \/ (a[1] = "remove" /\ Len(a) = 2)

Cmd(a) == IF a = <<>> THEN "next" ELSE a[1]

\* sqlite3_prepare_v2 and sqlite3_finalize on the function's statement
Prepared(sts, fn, fault) ==
  IF fault = "prepare" THEN sts ELSE Append(sts, [by |-> fn, fin |-> 0])

Finalized(sts, fault) ==
  IF fault = "prepare" THEN sts
  ELSE [sts EXCEPT ![Len(sts)].fin = @ + 1]

\* sqlite3_close: a null handle is left alone; with a statement that is
\* not finalized the call returns SQLITE_BUSY and the handle stays open
sqlite3_close(db, sts) ==
  IF db = "open" /\ \A k \in 1..Len(sts) : sts[k].fin >= 1
  THEN "closed"
  ELSE db

\* faulty variant of Caught: the exception is reported but main returns 0
Caught_zero(what) == [exit |-> 0, err |-> what]

\* main's catch clause: the message goes to stderr, main returns 1
Caught(what) == [exit |-> 1, err |-> what]

\* main returns: the handle is closed once (by the destructor, or by the
\* constructor's catch clause), with `thrown` the message of the exception
\* that reached main, "" for none
Returns(db, sts, thrown, code, out, err) ==
  /\ mpc' = "exited"
  /\ stmts' = sts
  /\ db_' = sqlite3_close(db, sts)
  /\ closes' = closes + 1
  /\ last' = IF thrown = ""
             THEN [cmd |-> Cmd(argv), exit |-> code, out |-> out, err |-> err]
             ELSE [cmd |-> Cmd(argv), exit |-> Caught(thrown).exit,
                   out |-> out, err |-> Caught(thrown).err]

UnchangedRound == UNCHANGED <<front, back, interval, reply, cin>>

\* Application::Application: open, then create()
Application(openok, fault) ==
  /\ mpc = "start"
  /\ LET s1 == Prepared(stmts, "create", fault)
     IN  IF ~openok
         THEN /\ Returns("open", stmts, "Can't open database", 1, <<>>, "")
              /\ cards' = cards
         ELSE IF fault # "none"
         THEN /\ Returns("open", Finalized(s1, fault), "Can't create table",
                         1, <<>>, "")
              /\ cards' = cards
         ELSE /\ mpc' = "run"
              /\ db_' = "open"
              /\ stmts' = Finalized(s1, fault)
              /\ cards' = create(cards)
              /\ UNCHANGED <<closes, last>>
  /\ UNCHANGED <<now, ticks, runs, pc, argv>>
  /\ UnchangedRound

\* any other invocation: usage(), return 1
main_usage ==
  /\ mpc = "run"
  /\ ~ValidArgs(argv)
  /\ Returns(db_, stmts, "", 1, <<>>, UsageText)
  /\ UNCHANGED <<cards, now, ticks, runs, pc, argv>>
  /\ UnchangedRound

\* Application::add: the result of the function, with the exception thrown
add_run(tbl, sts, f, b, fault, clock) ==
  LET s1 == Prepared(sts, "add", fault)
  IN  IF sizetint_throws(size(f)) \/ sizetint_throws(size(b))
      THEN [tbl |-> tbl, sts |-> s1, thrown |-> OverflowText]
      ELSE IF fault # "none" \/ ~InsertOk(tbl, f)
      THEN [tbl |-> tbl, sts |-> Finalized(s1, fault),
            thrown |-> "Can't insert into table"]
      ELSE [tbl |-> InsertRow(tbl, f, b, clock), sts |-> Finalized(s1, fault),
            thrown |-> ""]

main_add(fault) ==
  /\ mpc = "run"
  /\ ValidArgs(argv)
  /\ Cmd(argv) = "add"
  /\ LET r == add_run(cards, stmts, argv[2], argv[3], fault, now)
     IN  /\ cards' = r.tbl
         /\ Returns(db_, r.sts, r.thrown, 0, <<>>, "")
  /\ UNCHANGED <<now, ticks, runs, pc, argv>>
  /\ UnchangedRound

\* Application::list
main_list(fault) ==
  /\ mpc = "run"
  /\ ValidArgs(argv)
  /\ Cmd(argv) = "list"
  /\ LET s1 == Prepared(stmts, "list", fault)
     IN  IF fault # "none"
         THEN Returns(db_, Finalized(s1, fault), "Can't select from table",
                      0, <<>>, "")
         ELSE Returns(db_, Finalized(s1, fault), "", 0,
                      ListScan(cards, 1, now), "")
  /\ UNCHANGED <<cards, now, ticks, runs, pc, argv>>
  /\ UnchangedRound

\* Application::remove
remove_run(tbl, sts, f, fault) ==
  LET s1 == Prepared(sts, "remove", fault)
  IN  IF sizetint_throws(size(f))
      THEN [tbl |-> tbl, sts |-> s1, thrown |-> OverflowText]
      ELSE IF fault # "none"
      THEN [tbl |-> tbl, sts |-> Finalized(s1, fault),
            thrown |-> "Can't delete from table"]
      ELSE [tbl |-> DeleteRow(tbl, f), sts |-> Finalized(s1, fault),
            thrown |-> ""]

main_remove(fault) ==
  /\ mpc = "run"
  /\ ValidArgs(argv)
  /\ Cmd(argv) = "remove"
  /\ LET r == remove_run(cards, stmts, argv[2], fault)
     IN  /\ cards' = r.tbl
         /\ Returns(db_, r.sts, r.thrown, 0, <<>>, "")
  /\ UNCHANGED <<now, ticks, runs, pc, argv>>
  /\ UnchangedRound

\* Application::next up to the first read: the scan
main_next_scan(fault) ==
  /\ mpc = "run"
  /\ argv = <<>>
  /\ LET s1 == Prepared(stmts, "next", fault)
         loc == NextScan(cards, 1, NextLocals0, now)
     IN  IF fault # "none"
         THEN /\ Returns(db_, Finalized(s1, fault), "Can't select from table",
                         0, <<>>, "")
              /\ UnchangedRound
         ELSE IF ~loc.success
         THEN /\ Returns(db_, Finalized(s1, fault), "", 0, <<>>, "")
              /\ UnchangedRound
         ELSE /\ mpc' = "answer"
              /\ stmts' = Finalized(s1, fault)
              /\ front' = loc.front
              /\ back' = loc.back
              /\ interval' = loc.interval
              /\ UNCHANGED <<db_, closes, last, reply, cin>>
  /\ UNCHANGED <<cards, now, ticks, runs, pc, argv>>

\* Application::update: the result of the function
update_run(tbl, sts, i, f, fault, clock) ==
  LET s1 == Prepared(sts, "update", fault)
  IN  IF sizetint_throws(size(f))
      THEN [tbl |-> tbl, sts |-> s1, thrown |-> OverflowText]
      ELSE IF fault # "none"
      THEN [tbl |-> tbl, sts |-> Finalized(s1, fault),
            thrown |-> "Can't update table"]
      ELSE [tbl |-> update(tbl, i, f, clock), sts |-> Finalized(s1, fault),
            thrown |-> ""]

\* Application::next from the first read on: both reads, the new interval,
\* update()
main_next_answer(line1, eof1, line2, eof2, fault) ==
  /\ mpc = "answer"
  /\ LET r1 == getline_reply(cin, reply, line1)
         c1 == getline_cin(cin, line1, eof1)
         r2 == getline_reply(c1, r1, line2)
         r == update_run(cards, stmts, NextInterval(interval, r2), front,
                         fault, now)
     IN  /\ cards' = r.tbl
         /\ Returns(db_, r.sts, r.thrown, 0,
                    <<front, back, "Ok? (Y/n) ">>, "")
  /\ EndReview
  /\ UNCHANGED <<now, ticks, runs, argv>>

InitRun ==
  /\ \E s \in -2..7, late \in 0..1 :
       /\ cards = (IF s = -2 THEN NoTable
                   ELSE IF s = -1 THEN <<>> ELSE Climbed(s, 0))
       /\ now = (IF s < 0 THEN 0 ELSE LastSecond(s)) + late
  /\ argv \in Argvs
  /\ mpc = "start"
  /\ db_ = "null"
  /\ closes = 0
  /\ stmts = <<>>
  /\ ticks = 0
  /\ runs = 0
  /\ ReviewIdle
  /\ last = NoRun

NextRun ==
  \/ \E openok \in BOOLEAN, fault \in Faults : Application(openok, fault)
  \/ main_usage
  \/ \E fault \in Faults : main_add(fault)
  \/ \E fault \in Faults : main_list(fault)
  \/ \E fault \in Faults : main_remove(fault)
  \/ \E fault \in Faults : main_next_scan(fault)
  \/ \E line1 \in Lines, eof1 \in BOOLEAN, line2 \in Lines, eof2 \in BOOLEAN,
        fault \in Faults : main_next_answer(line1, eof1, line2, eof2, fault)

SpecRun == InitRun /\ [][NextRun]_vars

-----------------------------------------------------------------------------
(* Vocabulary of the properties, stated without the program's definitions *)

LadderDays == <<0, 1, 2, 4, 8, 16, 32, 64>>

LastStep == 7

\* seconds at which a row was last updated
UpdatedAt(r) == r.updated_at.date * 86400 + r.updated_at.time

\* a row is due at clock t
DueAt(r, t) == t >= UpdatedAt(r) + LadderDays[r.interval + 1] * 86400

PassLines == {<<>>, <<"y">>, <<"Y">>}

\* a step that writes the outcome of a review round back
UpdateStep == pc = "updating" /\ pc' = "idle"

Written(tbl, f) == RowOf(tbl, f).interval

\* a step that completes a list command
ListStep == last'.cmd = "list" /\ last' # last

\* steps that complete an add or a remove command
AddStep == last'.cmd = "add" /\ runs' = runs + 1

RemoveStep == last'.cmd = "remove" /\ runs' = runs + 1

Unique(tbl) ==
  \A j, k \in 1..Len(tbl) : tbl[j].front = tbl[k].front => j = k

Kept(tbl, r) == \E k \in 1..Len(tbl) : tbl[k] = r

\* a step of the review round: a change of its position, or the round
\* that ends in the scan
SelectNoneStep == pc = "idle" /\ pc' = "idle" /\ last'.cmd = "next" /\ last' # last

ReviewStep == pc' # pc \/ SelectNoneStep

NoneDue(tbl, t) == \A k \in 1..Len(tbl) : ~DueAt(tbl[k], t)

RECURSIVE DueFronts(_, _)
DueFronts(tbl, t) ==
  IF tbl = <<>> THEN <<>>
  ELSE (IF DueAt(Head(tbl), t) THEN <<Head(tbl).front>> ELSE <<>>)
         \o DueFronts(Tail(tbl), t)

DueCount(tbl, t) == Cardinality({k \in 1..Len(tbl) : DueAt(tbl[k], t)})

Printed(f, out) == \E n \in 1..Len(out) : out[n] = f

-----------------------------------------------------------------------------
(* Properties *)

\* C1: in every reachable state every stored card's step index is a valid
\* ladder index, 0 <= interval <= 7.
C1_StepIndexValid ==
  \A k \in 1..Len(cards) :
    cards[k].interval >= 0 /\ cards[k].interval <= LastStep

\* a card reviewed at the top step, at the first second it was due again
C1_Witness ==
  \E k \in 1..Len(cards) :
    /\ cards[k].interval = LastStep
    /\ cards[k].created_at = [date |-> 0, time |-> 0]
    /\ cards[k].updated_at = [date |-> 127, time |-> 0]

\* C2: a round judged as pass writes min(i + 1, 7) for the reviewed card,
\* i being the step index read during selection; at step 7 it writes 7.
C2_PassAdvances ==
  [][(UpdateStep /\ reply \in PassLines /\ HasFront(cards, front))
       => /\ HasFront(cards', front)
          /\ Written(cards', front) =
               (IF interval + 1 < LastStep THEN interval + 1 ELSE LastStep)]_vars

\* a passed round on a card at step 7: the card is still at step 7
C2_Witness ==
  /\ last.cmd = "next"
  /\ last.out # <<>>
  /\ \E k \in 1..Len(cards) :
       /\ cards[k].front = last.out[1]
       /\ cards[k].interval = LastStep
       /\ cards[k].updated_at = [date |-> 127, time |-> 0]
       /\ UpdatedAt(cards[k]) = now

\* C3: a round judged as fail writes step index 1 whatever the step index
\* read during selection was, also when that was 0.
C3_FailDropsToOne ==
  [][(UpdateStep /\ reply \notin PassLines /\ HasFront(cards, front))
       => /\ HasFront(cards', front)
          /\ Written(cards', front) = 1]_vars

\* a failed round on a card that had climbed to step 5
C3_Witness ==
  /\ last.cmd = "next"
  /\ last.out # <<>>
  /\ \E k \in 1..Len(cards) :
       /\ cards[k].front = last.out[1]
       /\ cards[k].interval = 1
       /\ cards[k].created_at = [date |-> 0, time |-> 0]
       /\ cards[k].updated_at = [date |-> 31, time |-> 0]

\* C4: the due predicate is true exactly when now >= updated_at +
\* ladder[step_index], ladder = 0, 1, 2, 4, 8, 16, 32, 64 days: a card is
\* listed if and only if the clock has reached that boundary.
C4_DueIffBoundary ==
  last.cmd = "list" =>
    /\ Len(cards) = 1
    /\ cards[1].interval \in 0..LastStep
    /\ last.out = IF DueAt(cards[1], now) THEN <<cards[1].front>> ELSE <<>>

\* a card at step 4 listed at exactly updated_at + 8 days
C4_Witness ==
  /\ last.cmd = "list"
  /\ Len(cards) = 1
  /\ cards[1].interval = 4
  /\ now = UpdatedAt(cards[1]) + 8 * 86400
  /\ last.out = <<"Q">>

\* C5: the card a review round presents and updates is the first card in
\* scan order that is due: no earlier row is due, the selection is not
\* replaced by a later row nor while the round waits for the operator,
\* and the write-back changes no row with another front.
C5_FirstDueSelected ==
  [][
      /\ (pc = "idle" /\ pc' = "presenting") =>
          \E k \in 1..Len(cards) :
            /\ DueAt(cards[k], now)
            /\ \A j \in 1..(k - 1) : ~DueAt(cards[j], now)
            /\ front' = cards[k].front
            /\ back' = cards[k].back
            /\ interval' = cards[k].interval
      /\ (pc \in {"presenting", "judging"}) =>
          (front' = front /\ back' = back /\ interval' = interval)
      /\ UpdateStep =>
          /\ Len(cards') = Len(cards)
          /\ \A k \in 1..Len(cards) :
               (cards'[k] # cards[k]) => (cards[k].front = front)
  ]_vars

\* two due cards in the table, the first of them selected
C5_Witness ==
  /\ pc = "presenting"
  /\ Len(cards) = 2
  /\ DueAt(cards[1], now)
  /\ DueAt(cards[2], now)
  /\ front = cards[1].front
  /\ back = cards[1].back
  /\ interval = cards[1].interval

\* C6: in the Judging state the line the operator supplies becomes the
\* reply, and the reply is mapped to the outcome: the empty line, "y" and
\* "Y" are a pass (the step advances, saturating), every other line is a
\* fail (the step becomes 1).
C6_JudgmentMapping ==
  [][
      /\ (pc = "judging" /\ cin = "good") =>
          \A line \in Lines, eof \in BOOLEAN :
            next_judge(line, eof) => reply' = line
      /\ (UpdateStep /\ HasFront(cards, front)) =>
          /\ HasFront(cards', front)
          /\ Written(cards', front) =
               IF reply = <<>> \/ reply = <<"y">> \/ reply = <<"Y">>
               THEN (IF interval = LastStep THEN LastStep ELSE interval + 1)
               ELSE 1
  ]_vars

\* the judgment line "Y" has been read for a card selected at step 3, which
\* is still in the table
C6_Witness ==
  /\ pc = "updating"
  /\ cin = "good"
  /\ reply = <<"Y">>
  /\ interval = 3
  /\ HasFront(cards, front)

\* C7: a card added at time T has step index 0 and is due at once and at
\* any later time; one passing review at time T' puts it at step 1 with
\* T' as its update time, and a card at step 1 is listed as due exactly from
\* one day after its update time on.
C7_AddedDuePassedWaitsADay ==
  [][
      /\ \A f \in Fronts :
           (~HasFront(cards, f) /\ HasFront(cards', f)) =>
             /\ RowOf(cards', f).interval = 0
             /\ UpdatedAt(RowOf(cards', f)) = now
      /\ \A k \in 1..Len(cards) :
           cards[k].interval = 0 => now >= UpdatedAt(cards[k])
      /\ (UpdateStep /\ interval = 0 /\ reply \in PassLines
            /\ HasFront(cards, front)) =>
             /\ HasFront(cards', front)
             /\ RowOf(cards', front).interval = 1
             /\ UpdatedAt(RowOf(cards', front)) = now
      /\ ListStep =>
           \A k \in 1..Len(cards) :
             /\ cards[k].interval = 0 => Printed(cards[k].front, last'.out)
             /\ cards[k].interval = 1 =>
                  (Printed(cards[k].front, last'.out)
                     <=> now >= UpdatedAt(cards[k]) + 86400)
  ]_vars

\* a card added and passed once is listed exactly one day after the review
C7_Witness ==
  /\ last.cmd = "list"
  /\ Printed("R", last.out)
  /\ \E k \in 1..Len(cards) :
       /\ cards[k].front = "R"
       /\ cards[k].interval = 1
       /\ now = UpdatedAt(cards[k]) + 86400

\* C8: no two cards share a front in any reachable state; an add whose
\* front is already stored exits with an error and leaves the table as it
\* was, the stored card with all its fields included.
C8_FrontUnique ==
  [][
      /\ Unique(cards)
      /\ Unique(cards')
      /\ AddStep =>
           \A f \in Fronts, b \in Backs :
             (HasFront(cards, f) /\ add(f, b)) =>
               /\ last'.exit = 1
               /\ last'.err # ""
               /\ cards' = cards
               /\ Cardinality({k \in 1..Len(cards') : cards'[k].front = f}) = 1
  ]_vars

\* an add has failed on a table that holds the card it collided with
C8_Witness ==
  /\ last.cmd = "add"
  /\ last.exit = 1
  /\ runs = 1
  /\ Len(cards) = 1
  /\ cards[1].front = "Q"
  /\ cards[1].back = "A"
  /\ cards[1].interval = 3

\* C9: remove(front) exits 0, deletes the card with that front and keeps
\* every other card as it was; without such a card the table is unchanged;
\* removing the same front again changes nothing.
C9_RemoveExact ==
  [][RemoveStep =>
       \A f \in Fronts :
         remove(f) =>
           /\ last'.exit = 0
           /\ last'.err = ""
           /\ ~HasFront(cards', f)
           /\ \A k \in 1..Len(cards) :
                cards[k].front # f => Kept(cards', cards[k])
           /\ Len(cards') =
                Len(cards) - (IF HasFront(cards, f) THEN 1 ELSE 0)
           /\ ~HasFront(cards, f) => cards' = cards
           /\ DeleteRow(cards', f) = cards']_vars

\* the first of two cards has been removed, the second one is still there
C9_Witness ==
  /\ last.cmd = "remove"
  /\ last.exit = 0
  /\ runs = 2
  /\ Len(cards) = 1
  /\ cards[1].front = "R"

\* C10: an add with a front that is not stored exits 0; afterwards the
\* table holds the previous cards unchanged and exactly one more card, with
\* that front, that back, step index 0 and the insertion time as updated_at.
C10_AddRoundTrip ==
  [][AddStep =>
       \A f \in Fronts, b \in Backs :
         (~HasFront(cards, f) /\ add(f, b)) =>
           /\ last'.exit = 0
           /\ last'.err = ""
           /\ Len(cards') = Len(cards) + 1
           /\ \A k \in 1..Len(cards) : Kept(cards', cards[k])
           /\ \E k \in 1..Len(cards') :
                /\ cards'[k].front = f
                /\ cards'[k].back = b
                /\ cards'[k].interval = 0
                /\ UpdatedAt(cards'[k]) = now
                /\ \A j \in 1..Len(cards') : cards'[j].front = f => j = k]_vars

\* a second card has just been added to a table with one card
C10_Witness ==
  /\ last.cmd = "add"
  /\ last.exit = 0
  /\ Len(cards) = 2
  /\ cards[1].front = "Q"
  /\ cards[2].front = "R"
  /\ cards[2].back = "B"
  /\ cards[2].interval = 0
  /\ UpdatedAt(cards[2]) = now
  /\ now % 86400 = 86399

\* C11: a review round changes at most one card, the selected one, and of
\* it only the step index and updated_at; front, back and created_at of
\* every card, every field of every other card and the set of fronts stay
\* as they were.
C11_ReviewFrame ==
  [][ReviewStep =>
       /\ Len(cards') = Len(cards)
       /\ \A k \in 1..Len(cards) :
            /\ cards'[k].front = cards[k].front
            /\ cards'[k].back = cards[k].back
            /\ cards'[k].created_at = cards[k].created_at
            /\ (cards'[k] # cards[k]) => (UpdateStep /\ cards[k].front = front)
       /\ Cardinality({k \in 1..Len(cards) : cards'[k] # cards[k]}) <= 1]_vars

\* the first of two cards has just been reviewed, the second is as inserted
C11_Witness ==
  /\ last.cmd = "next"
  /\ last.out # <<>>
  /\ pc = "idle"
  /\ Len(cards) = 2
  /\ cards[1].front = last.out[1]
  /\ UpdatedAt(cards[1]) = now
  /\ cards[1].updated_at # cards[1].created_at
  /\ cards[2].interval = 0
  /\ cards[2].updated_at = cards[2].created_at
  /\ UpdatedAt(cards[2]) < now

\* C12: list prints exactly the fronts of the cards that are due at the
\* time of the call, one per card, in scan order, exits 0 and leaves the
\* table unchanged; with no due card it prints nothing.
C12_ListDueFronts ==
  [][ListStep =>
       /\ last'.out = DueFronts(cards, now)
       /\ (NoneDue(cards, now) => last'.out = <<>>)
       /\ last'.exit = 0
       /\ cards' = cards]_vars

\* two due cards have been listed in scan order
C12_Witness ==
  /\ last.cmd = "list"
  /\ Len(cards) = 2
  /\ DueAt(cards[1], now)
  /\ DueAt(cards[2], now)
  /\ last.out = <<cards[1].front, cards[2].front>>

\* C13: with no due card (the empty table included) a review round ends in
\* its scan: nothing is printed, std::cin is not read, no card is modified
\* and the exit code is 0; the round goes on to present a card only when
\* one is due.
C13_NothingDue ==
  [][
      /\ (pc = "idle" /\ pc' = "presenting") => ~NoneDue(cards, now)
      /\ (pc = "idle" /\ NoneDue(cards, now) /\ next_select) =>
           /\ pc' = "idle"
           /\ last' = [cmd |-> "next", exit |-> 0, out |-> <<>>, err |-> ""]
           /\ cards' = cards
           /\ cin' = cin
           /\ reply' = reply
  ]_vars

\* a round has ended in its scan over a table whose only card is not due
C13_Witness ==
  /\ last.cmd = "next"
  /\ last.out = <<>>
  /\ last.exit = 0
  /\ pc = "idle"
  /\ Len(cards) = 1
  /\ ~DueAt(cards[1], now)

\* C14: as long as a card is stored its updated_at never decreases: a
\* review sets it to the current time, which is not earlier than the value
\* it replaces, and no other step changes it.
C14_UpdatedAtMonotone ==
  [][(cards' # cards) =>
       \A f \in Fronts :
         (HasFront(cards, f) /\ HasFront(cards', f)) =>
           LET old == RowOf(cards, f)
               new == RowOf(cards', f)
           IN  /\ UpdatedAt(new) >= UpdatedAt(old)
               /\ (new.updated_at # old.updated_at) =>
                    /\ UpdateStep
                    /\ front = f
                    /\ UpdatedAt(new) = now]_vars

\* a card that had been reviewed before has been reviewed again, later
C14_Witness ==
  /\ last.cmd = "next"
  /\ \E k \in 1..Len(cards) :
       /\ cards[k].interval = 3
       /\ cards[k].created_at = [date |-> 0, time |-> 0]
       /\ cards[k].updated_at = [date |-> 3, time |-> 0]
       /\ UpdatedAt(cards[k]) = now

\* C17: when the selected card is gone at the write-back (removed while
\* the round waited for the operator) the round still exits 0 without a
\* message, the card is not recreated and the remaining cards are unchanged.
C17_UpdateOfRemovedCard ==
  [][(UpdateStep /\ ~HasFront(cards, front)) =>
       /\ cards' = cards
       /\ ~HasFront(cards', front)
       /\ last'.exit = 0
       /\ last'.err = ""]_vars

\* a round has completed for a card that is no longer stored, another card
\* is still there
C17_Witness ==
  /\ last.cmd = "next"
  /\ last.out # <<>>
  /\ pc = "idle"
  /\ ~HasFront(cards, last.out[1])
  /\ Len(cards) = 1
  /\ runs = 2

\* C18: the outcome of a review round depends only on the judgment line,
\* never on the line read in the Presenting state: the second read makes
\* the line supplied to it the reply, and when the input has ended before a
\* judgment line was supplied (std::cin has failed at the write-back) the
\* round counts as passed, whatever the first line was and however it
\* ended.
C18_JudgmentOnly ==
  [][
      /\ (pc = "judging" /\ pc' = "updating" /\ cin = "good") =>
           \A line \in Lines, eof \in BOOLEAN :
             next_judge(line, eof) => reply' = line
      /\ (UpdateStep /\ cin = "fail" /\ HasFront(cards, front)) =>
           /\ HasFront(cards', front)
           /\ Written(cards', front) =
                (IF interval = LastStep THEN LastStep ELSE interval + 1)
  ]_vars

\* C19: a completed review round, whatever the judgment, leaves the
\* reviewed card at a step >= 1 and not due before one day after the
\* review, so there is one due card less; step 0 is held only by cards
\* never reviewed since their insertion; with the clock held fixed,
\* repeated rounds end in a state with no due card (each round takes one
\* of the at most n due cards away).
C19_ReviewedNotDue ==
  /\ [][(UpdateStep /\ HasFront(cards, front)) =>
          /\ HasFront(cards', front)
          /\ RowOf(cards', front).interval >= 1
          /\ UpdatedAt(RowOf(cards', front)) = now
          /\ ~DueAt(RowOf(cards', front), now + 86400 - 1)
          /\ DueCount(cards', now) = DueCount(cards, now) - 1
          /\ DueCount(cards, now) <= Len(cards)]_vars
  /\ [](\A k \in 1..Len(cards) :
          cards[k].interval = 0 => cards[k].updated_at = cards[k].created_at)
  /\ <>[](pc = "idle" /\ NoneDue(cards, now))

\* two rounds on a table of two due cards: both reviewed, none due
C19_Witness ==
  /\ pc = "idle"
  /\ last.cmd = "next"
  /\ last.out # <<>>
  /\ Len(cards) = 2
  /\ UpdatedAt(cards[1]) = now
  /\ UpdatedAt(cards[2]) = now
  /\ cards[1].interval = 1
  /\ cards[2].interval = 1
  /\ cards[1].updated_at # cards[1].created_at
  /\ NoneDue(cards, now)


-----------------------------------------------------------------------------
(* Properties of one invocation, SpecRun.                                  *)

\* the step ends the invocation in failure: nothing was written, one
\* statement at most was prepared (no second attempt), a message is on the
\* error stream and the exit code is not zero
Failed ==
  /\ mpc' = "exited"
  /\ cards' = cards
  /\ Len(stmts') <= Len(stmts) + 1
  /\ last'.err # ""
  /\ last'.exit # 0

Succeeded ==
  /\ mpc' = "exited"
  /\ last'.err = ""
  /\ last'.exit = 0

HasHuge(a) == \E k \in 1..Len(a) : a[k] = Huge

\* C15: the storage handle is released on every exit path of an invocation
\* (normal completion, usage error, an error thrown by a store operation,
\* failure to open the engine or to create the schema): it is never released
\* twice and never left open when the process exits.
C15_HandleReleased ==
  /\ closes <= 1
  /\ (mpc = "exited") => (closes = 1 /\ db_ # "open")

\* C16: every error raised during an invocation (open failure, schema
\* creation failure, duplicate front on insert, a statement that fails to
\* execute or step to completion, a text longer than an int can hold) aborts
\* the operation without a retry, prints a message on the error stream and
\* makes the process exit non-zero; removing a card that does not exist is
\* not an error.
C16_ErrorsAreFatal ==
  [][
      /\ \A openok \in BOOLEAN, fault \in Faults :
           (Application(openok, fault) /\ (~openok \/ fault # "none"))
             => Failed
      /\ \A fault \in Faults \ {"none"} :
           (\/ main_add(fault)
            \/ main_list(fault)
            \/ main_remove(fault)
            \/ main_next_scan(fault)
            \/ \E line1 \in Lines, eof1 \in BOOLEAN, line2 \in Lines,
                  eof2 \in BOOLEAN :
                 main_next_answer(line1, eof1, line2, eof2, fault))
             => Failed
      /\ (mpc = "run" /\ ValidArgs(argv) /\ Cmd(argv) = "add"
            /\ HasFront(cards, argv[2]))
             => Failed
      /\ (mpc = "run" /\ ValidArgs(argv) /\ Cmd(argv) \in {"add", "remove"}
            /\ HasHuge(argv))
             => Failed
      /\ (main_remove("none") /\ ~HasHuge(argv) /\ ~HasFront(cards, argv[2]))
             => (Succeeded /\ cards' = cards)
  ]_vars

C16_Witness ==
  /\ mpc = "exited"
  /\ Cmd(argv) = "add"
  /\ ValidArgs(argv)
  /\ cards # NoTable
  /\ HasFront(cards, argv[2])
  /\ RowOf(cards, argv[2]).back # argv[3]
  /\ last.err = "Can't insert into table"
  /\ last.exit = 1

\* C20: every statement prepared by add, list, next, remove, create and
\* update is finalized exactly once before the operation returns or throws,
\* on every path, the one where the length conversion throws after the
\* statement was prepared included; no statement is left unfinalized when
\* the handle is closed.
C20_FinalizedExactlyOnce ==
  \A k \in 1..Len(stmts) : stmts[k].fin = 1

====
